---- MODULE Spec2Model ----
(***************************************************************************)
(* Model of the typing session of the Pac-Man typing test                  *)
(* (src/typingTest.js, class TypingTestManager).                           *)
(*                                                                         *)
(* Strings are sequences of one-character strings.  A handler of the       *)
(* class is an operator from the object (a record of config, state, timer  *)
(* and the callbacks it invoked) to the object after the call; an action   *)
(* applies one handler to the current object.                              *)
(*                                                                         *)
(* config.time is a number of minutes.  The model keeps it as a multiple   *)
(* of 1/TimeUnit minute, so that resetState's config.time * 60 is a small  *)
(* whole number of seconds (k/60*60 is exact in double arithmetic for the  *)
(* k used here).  The constructor's default of 3 minutes and the content   *)
(* pools are outside the bounds; a configuration and a generated text are  *)
(* inputs drawn from Durations and Texts.                                  *)
(*                                                                         *)
(* state.endTime is written by stop() and read nowhere; it is left out.    *)
(***************************************************************************)
EXTENDS Integers, Sequences, FiniteSets, TLC

VARIABLES
    config,      \* this.config
    state,       \* this.state
    timer,       \* this.timer: NULL, or the handle of the armed interval
    emitted,     \* the callbacks the last operation invoked, in order
    results,     \* the arguments the last operation passed to onComplete
    completed,   \* onComplete was invoked since the last start() or resetState()
    gen,         \* the locals of a call of generateTestText() and where it stands
    anim,        \* the AnimationManager: its pools and its pending timers
    app,         \* the PacManTypingApp: its screen and the last keydown event
    particles,   \* the particle pool of the animation manager
    clock,       \* the time since the interval was armed and the time spent running
    op           \* the last operation delivered to the session

vars == <<config, state, timer, emitted, results, completed, gen, anim, app,
          particles, clock, op>>

----------------------------------------------------------------------------
(* Bounds *)

MaxLen == 2          \* longest target text
MaxKeystrokes == 2   \* cap on state.totalChars
MaxTime == 2         \* the configured duration, in seconds
MaxOverrun == 1      \* cap on how far state.timeRemaining may fall below 0
MaxCount == 5        \* largest counter of a session whose statistics are read

TimeUnit == 60       \* config.time is counted in 1/TimeUnit minutes

Alphabet == {"a", "b"}
Timestamps == {1}                \* values Date.now() may return
Durations == {MaxTime}           \* config.time * 60

NULL == 0             \* null; timestamps and interval handles are positive
TimerId == 1          \* the handle setInterval returns
UNDEFINED == "undefined"

Strs(n) == UNION {[1..k -> Alphabet] : k \in 0..n}
\* The handlers compare characters for equality only, so a text is taken up
\* to the renaming of the alphabet: it starts with "a".  An input buffer is
\* any string, up to one character longer than the longest text.
Texts == {t \in Strs(MaxLen) : t = <<>> \/ t[1] = "a"}
Inputs == Strs(MaxLen + 1)

----------------------------------------------------------------------------
(* JavaScript helpers *)

\* s[i] of a JavaScript string, 0-based; out of range is undefined
CharAt(s, i) == IF i >= 0 /\ i < Len(s) THEN s[i + 1] ELSE UNDEFINED

\* rationals <<n, d>>, d > 0, for the percentages of calculateStats
RatLE(p, q) == p[1] * q[2] <= q[1] * p[2]
RatMax(p, q) == IF RatLE(p, q) THEN q ELSE p
RatMin(p, q) == IF RatLE(p, q) THEN p ELSE q
RatEq(p, q) == p[1] * q[2] = q[1] * p[2]
RECURSIVE GCD(_, _)
GCD(a, b) == IF b = 0 THEN a ELSE GCD(b, a % b)
\* p in lowest terms
RatReduce(p) ==
    LET g == GCD(IF p[1] < 0 THEN -p[1] ELSE p[1], p[2])
    IN  <<p[1] \div g, p[2] \div g>>
\* p / q, for q > 0
RatDiv(p, q) == RatReduce(<<p[1] * q[2], p[2] * q[1]>>)

----------------------------------------------------------------------------
(* The object *)

Self == [config |-> config, state |-> state, timer |-> timer,
         emitted |-> <<>>, results |-> <<>>, completed |-> completed]

Commit(name, after) ==
    \E o \in {after} :
        /\ op' = name
        /\ config' = o.config
        /\ state' = o.state
        /\ timer' = o.timer
        /\ emitted' = o.emitted
        /\ results' = o.results
        /\ completed' = o.completed
        /\ gen' = gen
        /\ anim' = anim
        /\ app' = app
        /\ clock' = clock
        /\ particles' = particles

\* a callback field (onStatsUpdate, onComplete, onCorrectKey, onIncorrectKey)
\* is invoked
Emit(o, ev) == [o EXCEPT !.emitted = Append(@, ev)]

----------------------------------------------------------------------------
(* Handlers of TypingTestManager *)

clearTimer(o) == [o EXCEPT !.timer = NULL]

startTimer(o) == [clearTimer(o) EXCEPT !.timer = TimerId]

\* the text is the outcome of the random draws
generateTestText(o, text) == [o EXCEPT !.state.currentText = text]

\* faulty variant: the interval is left armed
resetState_KeepsTimer(o) ==
    [o EXCEPT !.state.isActive = FALSE,
              !.state.isPaused = FALSE,
              !.state.startTime = NULL,
              !.state.timeRemaining = (o.config.time * 60) \div TimeUnit,
              !.state.typedText = <<>>,
              !.state.currentPosition = 0,
              !.state.errors = 0,
              !.state.totalChars = 0,
              !.state.correctChars = 0,
              !.completed = FALSE]

resetState(o) ==
    clearTimer([o EXCEPT !.state.isActive = FALSE,
                         !.state.isPaused = FALSE,
                         !.state.startTime = NULL,
                         !.state.timeRemaining = (o.config.time * 60) \div TimeUnit,
                         !.state.typedText = <<>>,
                         !.state.currentPosition = 0,
                         !.state.errors = 0,
                         !.state.totalChars = 0,
                         !.state.correctChars = 0,
                         !.completed = FALSE])

configure(o, time, text) ==
    resetState(generateTestText([o EXCEPT !.config.time = time], text))

\* faulty variant: no keystroke yet reads as an accuracy of 0
calculateStats_ZeroAccuracy(o) ==
    LET s == o.state
    IN  [accuracy |-> IF s.totalChars > 0
                      THEN <<s.correctChars * 100, s.totalChars>>
                      ELSE <<0, 1>>,
         timeRemaining |-> IF s.timeRemaining > 0 THEN s.timeRemaining ELSE 0,
         charactersTyped |-> s.currentPosition,
         correctChars |-> s.correctChars,
         errors |-> s.errors,
         totalChars |-> s.totalChars,
         progress |-> <<s.currentPosition * 100, Len(s.currentText)>>]

calculateStats(o) ==
    LET s == o.state
        accuracy == IF s.totalChars > 0
                    THEN <<s.correctChars * 100, s.totalChars>>
                    ELSE <<100, 1>>
    IN  [accuracy |-> RatMax(<<0, 1>>, RatMin(<<100, 1>>, accuracy)),
         timeRemaining |-> IF s.timeRemaining > 0 THEN s.timeRemaining ELSE 0,
         charactersTyped |-> s.currentPosition,
         correctChars |-> s.correctChars,
         errors |-> s.errors,
         totalChars |-> s.totalChars,
         \* currentPosition / currentText.length * 100, as a fraction; the
         \* denominator is 0 for an empty text (NaN or Infinity).  wpm and
         \* timeElapsed read the clock and are not part of this record.
         progress |-> <<s.currentPosition * 100, Len(s.currentText)>>]

\* timeElapsed of calculateStats when Date.now() returns now: seconds, as a
\* fraction
timeElapsed(o, now) ==
    IF o.state.startTime # NULL THEN <<now - o.state.startTime, 1000>> ELSE <<0, 1>>

\* faulty variant: the floor is 1/3600 of a minute
minutes_FloorOfTheSpec(o, now) ==
    LET t == timeElapsed(o, now)
    IN  RatMax(<<t[1], t[2] * 60>>, <<1, 3600>>)

\* Math.max(timeElapsed / 60, 1/60)
minutes(o, now) ==
    LET t == timeElapsed(o, now)
    IN  RatMax(<<t[1], t[2] * 60>>, <<1, 60>>)

\* Math.max(0, (correctChars / 5) / minutes)
wpm(o, now) == RatMax(<<0, 1>>, RatDiv(<<o.state.correctChars, 5>>, minutes(o, now)))

\* getStats(): the whole record calculateStats returns when Date.now()
\* returns now
getStats(o, now) ==
    LET s == calculateStats(o)
    IN  [wpm |-> wpm(o, now),
         accuracy |-> s.accuracy,
         timeRemaining |-> s.timeRemaining,
         timeElapsed |-> timeElapsed(o, now),
         charactersTyped |-> s.charactersTyped,
         correctChars |-> s.correctChars,
         errors |-> s.errors,
         totalChars |-> s.totalChars,
         progress |-> s.progress]

updateStats(o) == Emit(o, "stats")

\* faulty variant: the active flag is flipped
stop_Toggles(o) == clearTimer([o EXCEPT !.state.isActive = ~@])

stop(o) == clearTimer([o EXCEPT !.state.isActive = FALSE])

\* faulty variant: onComplete is invoked twice
completeTest_Twice(o) ==
    LET d == stop(o)
    IN  [Emit(Emit(d, "complete"), "complete")
            EXCEPT !.results = @ \o <<calculateStats(d), calculateStats(d)>>,
                   !.completed = TRUE]

\* onComplete(results), results being the statistics after stop()
completeTest(o) ==
    LET d == stop(o)
    IN  [Emit(d, "complete") EXCEPT !.results = Append(@, calculateStats(d)),
                                    !.completed = TRUE]

\* faulty variant: start() draws the text away
start_ClearsText(o, now) ==
    updateStats(startTimer([o EXCEPT !.state.isActive = TRUE,
                                     !.state.isPaused = FALSE,
                                     !.state.startTime = now,
                                     !.state.currentText = <<>>,
                                     !.completed = FALSE]))

start(o, now) ==
    updateStats(startTimer([o EXCEPT !.state.isActive = TRUE,
                                     !.state.isPaused = FALSE,
                                     !.state.startTime = now,
                                     !.completed = FALSE]))

\* faulty variant: the interval stays armed
pause_KeepsTimer(o) == [o EXCEPT !.state.isPaused = TRUE]

pause(o) == clearTimer([o EXCEPT !.state.isPaused = TRUE])

resume(o) == startTimer([o EXCEPT !.state.isPaused = FALSE])

reset(o, text) == generateTestText(resetState(stop(o)), text)

\* faulty variant: the countdown never ends
timeUp_Never(o) == FALSE

\* faulty variant: the countdown ends one firing late
timeUp_Strict(o) == o.state.timeRemaining < 0

\* this.state.timeRemaining <= 0
timeUp(o) == o.state.timeRemaining <= 0

\* faulty variant: the callback does not test isActive
timerCallback_IgnoresActive(o) ==
    IF ~o.state.isPaused
    THEN LET d == [o EXCEPT !.state.timeRemaining = @ - 1]
         IN  IF timeUp(d) THEN completeTest(d) ELSE updateStats(d)
    ELSE o

\* the callback startTimer hands to setInterval
timerCallback(o) ==
    IF ~o.state.isPaused /\ o.state.isActive
    THEN LET d == [o EXCEPT !.state.timeRemaining = @ - 1]
         IN  IF timeUp(d) THEN completeTest(d) ELSE updateStats(d)
    ELSE o

\* faulty variant: the guard forgets the pause
inputRejected_IgnoresPause(o) == ~o.state.isActive

\* the guard of handleInput: the event is dropped unless the session runs
inputRejected(o) == ~o.state.isActive \/ o.state.isPaused

\* faulty variant: the position is not moved
acceptInput_KeepsPosition(o, inputValue) ==
    [o EXCEPT !.state.typedText = inputValue]

\* faulty variant: the position advances by one character
acceptInput_StepsOne(o, inputValue) ==
    [o EXCEPT !.state.typedText = inputValue,
              !.state.currentPosition = @ + 1]

\* typedText and currentPosition take the buffer of the event
acceptInput(o, inputValue) ==
    [o EXCEPT !.state.typedText = inputValue,
              !.state.currentPosition = Len(inputValue)]

\* faulty variant: a deletion takes the keystroke back
deletion_Uncounts(o, inputValue) ==
    updateStats(acceptInput([o EXCEPT !.state.totalChars = @ - 1], inputValue))

\* faulty variant: a deletion takes an error back
deletion_Forgives(o, inputValue) ==
    updateStats(acceptInput([o EXCEPT !.state.errors = IF @ > 0 THEN @ - 1 ELSE 0],
                            inputValue))

\* the buffer got shorter ("Handle backspace")
deletion(o, inputValue) == updateStats(acceptInput(o, inputValue))

\* faulty variant: the keystroke is not counted
countKeystroke_Skipped(o) == o

countKeystroke(o) == [o EXCEPT !.state.totalChars = @ + 1]

\* faulty variants: the end of the text is tested off by one
textComplete_Strict(o) == o.state.currentPosition > Len(o.state.currentText)
textComplete_Early(o) == o.state.currentPosition >= Len(o.state.currentText) - 1

\* "Check if test is complete"
textComplete(o) == o.state.currentPosition >= Len(o.state.currentText)

\* faulty variant: onComplete is invoked before onCorrectKey
correctBranch_CompletesFirst(o, inputValue) ==
    LET c == acceptInput([o EXCEPT !.state.correctChars = @ + 1], inputValue)
    IN  IF textComplete(c) THEN Emit(completeTest(c), "correctKey")
        ELSE updateStats(Emit(c, "correctKey"))

\* newChar === expectedChar
correctBranch(o, inputValue) ==
    LET c == Emit(acceptInput([o EXCEPT !.state.correctChars = @ + 1], inputValue),
                  "correctKey")
    IN  IF textComplete(c) THEN completeTest(c) ELSE updateStats(c)

\* faulty variant: a wrong character is counted and kept out of the buffer
incorrectBranch_Rejects(o, inputValue) ==
    updateStats(Emit([o EXCEPT !.state.errors = @ + 1], "incorrectKey"))

\* faulty variant: a wrong character at the end of the text completes the test
incorrectBranch_Completes(o, inputValue) ==
    LET c == acceptInput(Emit([o EXCEPT !.state.errors = @ + 1], "incorrectKey"),
                         inputValue)
    IN  IF c.state.currentPosition >= Len(c.state.currentText)
        THEN completeTest(c)
        ELSE updateStats(c)

\* faulty variant: a wrong character is not counted as an error
incorrectBranch_Uncounted(o, inputValue) ==
    updateStats(acceptInput(Emit(o, "incorrectKey"), inputValue))

\* newChar !== expectedChar
incorrectBranch(o, inputValue) ==
    updateStats(acceptInput(Emit([o EXCEPT !.state.errors = @ + 1], "incorrectKey"),
                            inputValue))

handleInput(o, inputValue) ==
    LET inputLength == Len(inputValue)
        newChar == CharAt(inputValue, inputLength - 1)
        expectedChar == CharAt(o.state.currentText, o.state.currentPosition)
    IN  IF inputRejected(o) THEN o
        ELSE IF inputLength < Len(o.state.typedText) THEN deletion(o, inputValue)
        ELSE IF newChar = expectedChar
        THEN correctBranch(countKeystroke(o), inputValue)
        ELSE incorrectBranch(countKeystroke(o), inputValue)

isRunning(o) == o.state.isActive /\ ~o.state.isPaused

----------------------------------------------------------------------------
(* generateTestText() *)

\* this.contentData, cut down: two difficulties and two languages, two
\* entries in each pool, every entry a string of its own.  generateTestText
\* reads the entries' lengths and the pools' sizes only.
contentData ==
    [difficulties |->
        [easy |-> [words |-> << <<"c">>, <<"d", "o">> >>,
                   sentences |-> << <<"T", "c", "r">>, <<"D", "p">> >>],
         normal |-> [words |-> << <<"k">>, <<"t", "y">> >>,
                     sentences |-> << <<"P", "m", "p">>, <<"A", "f">> >>]],
     code_snippets |->
        [python |-> << <<"d", "e", "f">>, <<"f", "o">> >>,
         javascript |-> << <<"f", "n">>, <<"c", "t">> >>]]

\* names every object inherits from Object.prototype; one stands for all
InheritedKeys == {"constructor"}

\* the values config.mode, config.difficulty and config.language may take:
\* the registered keys, one that names nothing and one inherited name
Modes == {"words", "code"}
DifficultyKeys == DOMAIN contentData.difficulties \cup {"medium"} \cup InheritedKeys
LanguageKeys == DOMAIN contentData.code_snippets \cup {"rust"} \cup InheritedKeys

\* obj[key] is not a property of obj itself but one it inherits: a
\* function, which is truthy
Inherits(obj, key) == key \notin DOMAIN obj /\ key \in InheritedKeys

\* obj[key] || obj[fallback], where obj[key] is not inherited
Lookup(obj, key, fallback) ==
    IF key \in DOMAIN obj THEN obj[key] ELSE obj[fallback]

Snippets(language) == Lookup(contentData.code_snippets, language, "javascript")

Difficulty(difficulty) == Lookup(contentData.difficulties, difficulty, "normal")

\* parts.join(' ')
RECURSIVE Join(_)
Join(parts) ==
    IF parts = <<>> THEN <<>>
    ELSE IF Len(parts) = 1 THEN parts[1]
    ELSE parts[1] \o <<" ">> \o Join(Tail(parts))

\* s.splice(i, 1): s without its i-th element
\* faulty variant: the element read stays in the array
Splice_Keeps(s, i) == s

Splice(s, i) == SubSeq(s, 1, i - 1) \o SubSeq(s, i + 1, Len(s))

\* faulty variant: the duration is left out
targetChars_Zero == <<0, TimeUnit>>

\* targetChars = 40 * config.time * 5, config.time counted in 1/TimeUnit
\* minutes: a fraction
targetChars == <<40 * config.time * 5, TimeUnit>>

\* no call of generateTestText() is under way
GenIdle == [pc |-> "idle", sentences |-> <<>>, words |-> <<>>,
            textParts |-> <<>>, currentLength |-> 0]

\* time is not observed
ClockIdle == [sinceArmed |-> 0, ran |-> 0]

\* no AnimationManager and no PacManTypingApp were constructed
AnimIdle == [pc |-> "idle"]
NoParticles == [pool |-> {}, tracked |-> <<>>]
AppIdle == [currentScreen |-> "none", disabled |-> FALSE,
            key |-> "none", target |-> "none"]

----------------------------------------------------------------------------
(* Phase of the session, read off the flags *)

Phase ==
    IF state.isActive
    THEN (IF state.isPaused THEN "paused" ELSE "running")
    ELSE IF state.startTime = NULL THEN "idle"
    ELSE IF completed THEN "completed"
    ELSE "stopped"

----------------------------------------------------------------------------
(* Specification *)

Init ==
    /\ config \in [time : Durations]
    /\ state = [isActive |-> FALSE, isPaused |-> FALSE, startTime |-> NULL,
                timeRemaining |-> 0, currentText |-> <<>>, typedText |-> <<>>,
                currentPosition |-> 0, errors |-> 0, totalChars |-> 0,
                correctChars |-> 0]
    /\ timer = NULL
    /\ emitted = <<>>
    /\ results = <<>>
    /\ completed = FALSE
    /\ gen = GenIdle
    /\ anim = AnimIdle
    /\ app = AppIdle
    /\ clock = ClockIdle
    /\ particles = NoParticles
    /\ op = "new"

Configure ==
    \E time \in Durations, text \in Texts :
        Commit("configure", configure(Self, time, text))

Start == \E now \in Timestamps : Commit("start", start(Self, now))

Pause == Commit("pause", pause(Self))

Resume == Commit("resume", resume(Self))

Stop == Commit("stop", stop(Self))

Reset == \E text \in Texts : Commit("reset", reset(Self, text))

\* an input event; the guard caps state.totalChars.  A session that is not
\* running returns before it reads the buffer: one buffer stands for all.
HandleInput ==
    \E inputValue \in (IF inputRejected(Self) THEN {<<>>} ELSE Inputs) :
        \E o \in {handleInput(Self, inputValue)} :
            /\ o.state.totalChars <= MaxKeystrokes
            /\ Commit("input", o)

\* the interval fires; the guard caps the fall of state.timeRemaining
Tick ==
    /\ timer # NULL
    /\ \E o \in {timerCallback(Self)} :
           /\ o.state.timeRemaining >= -MaxOverrun
           /\ Commit("timer", o)

Next ==
    \/ Configure
    \/ Start
    \/ Pause
    \/ Resume
    \/ Stop
    \/ Reset
    \/ HandleInput
    \/ Tick

Spec == Init /\ [][Next]_vars

\* setInterval fires the callback of an armed interval every second
FairSpec == Spec /\ WF_vars(Tick)

----------------------------------------------------------------------------
(* Reading the statistics *)

\* milliseconds between start() and the reading of the clock; the clock of
\* a browser may step back
Elapsed == {-500, 0, 500, 1000, 6000, 60000}

\* a session that was never started, or a running one on the text ab in
\* which a was typed and deleted correctChars times and b errors times
StatsInit ==
    /\ config \in [time : Durations]
    /\ \E total \in 0..MaxCount, correct \in 0..MaxCount, started \in BOOLEAN :
           /\ correct <= total
           /\ ~started => total = 0
           /\ state = [isActive |-> started, isPaused |-> FALSE,
                       startTime |-> IF started THEN 1 ELSE NULL,
                       timeRemaining |-> IF started THEN config.time ELSE 0,
                       currentText |-> IF started THEN <<"a", "b">> ELSE <<>>,
                       typedText |-> <<>>, currentPosition |-> 0,
                       errors |-> total - correct, totalChars |-> total,
                       correctChars |-> correct]
           /\ timer = IF started THEN TimerId ELSE NULL
    /\ emitted = <<>>
    /\ results = <<>>
    /\ completed = FALSE
    /\ gen = GenIdle
    /\ anim = AnimIdle
    /\ app = AppIdle
    /\ clock = ClockIdle
    /\ particles = NoParticles
    /\ op = "new"

\* getStats() is called; results holds what it returns
GetStats ==
    /\ op = "new"
    /\ \E e \in Elapsed :
           /\ results' = <<getStats(Self, 1 + e)>>
           /\ op' = "getStats"
    /\ UNCHANGED <<config, state, timer, emitted, completed, gen, anim, app, clock, particles>>

StatsSpec == StatsInit /\ [][GetStats]_vars

----------------------------------------------------------------------------
(* Generating the text *)

GenInit ==
    /\ config \in [difficulty : DifficultyKeys, mode : Modes,
                   language : LanguageKeys, time : 1..MaxTime]
    /\ state = [isActive |-> FALSE, isPaused |-> FALSE, startTime |-> NULL,
                timeRemaining |-> 0, currentText |-> <<>>, typedText |-> <<>>,
                currentPosition |-> 0, errors |-> 0, totalChars |-> 0,
                correctChars |-> 0]
    /\ timer = NULL
    /\ emitted = <<>>
    /\ results = <<>>
    /\ completed = FALSE
    /\ gen = GenIdle
    /\ anim = AnimIdle
    /\ app = AppIdle
    /\ clock = ClockIdle
    /\ particles = NoParticles
    /\ op = "new"

\* code mode: one snippet is the text.  An inherited name yields a function
\* for the snippet set, whose element at any index is undefined
GenSnippet ==
    /\ gen.pc = "idle"
    /\ config.mode = "code"
    /\ IF Inherits(contentData.code_snippets, config.language)
       THEN /\ gen' = [gen EXCEPT !.pc = "undefined"]
            /\ UNCHANGED state
       ELSE \E snippets \in {Snippets(config.language)} :
                \E i \in 1..Len(snippets) :
                    /\ gen' = [gen EXCEPT !.pc = "done"]
                    /\ state' = [state EXCEPT !.currentText = snippets[i]]
    /\ op' = "generateTestText"
    /\ UNCHANGED <<config, timer, emitted, results, completed, anim, app, clock, particles>>

\* any other mode: the pools are copied.  An inherited name yields a
\* function for the difficulty, whose words are undefined: the spread throws
GenPools ==
    /\ gen.pc = "idle"
    /\ config.mode # "code"
    /\ IF Inherits(contentData.difficulties, config.difficulty)
       THEN gen' = [gen EXCEPT !.pc = "thrown"]
       ELSE \E difficulty \in {Difficulty(config.difficulty)} :
                gen' = [pc |-> "sentences", sentences |-> difficulty.sentences,
                        words |-> difficulty.words, textParts |-> <<>>,
                        currentLength |-> 0]
    /\ op' = "generateTestText"
    /\ UNCHANGED <<config, state, timer, emitted, results, completed, anim, app, clock, particles>>

\* faulty variant: sentences are drawn up to the whole target length
moreSentences_ToTarget ==
    /\ gen.currentLength * targetChars[2] < targetChars[1]
    /\ Len(gen.sentences) > 0

\* currentLength < targetChars * 0.6 && sentences.length > 0
moreSentences ==
    /\ gen.currentLength * targetChars[2] * 10 < targetChars[1] * 6
    /\ Len(gen.sentences) > 0

\* currentLength < targetChars && words.length > 0
moreWords ==
    /\ gen.currentLength * targetChars[2] < targetChars[1]
    /\ Len(gen.words) > 0

\* one turn of the first loop: a sentence is taken out of the pool
DrawSentence ==
    /\ gen.pc = "sentences"
    /\ moreSentences
    /\ \E i \in 1..Len(gen.sentences) :
           gen' = [gen EXCEPT !.sentences = Splice(@, i),
                              !.textParts = Append(@, gen.sentences[i]),
                              !.currentLength = @ + Len(gen.sentences[i]) + 1]
    /\ UNCHANGED <<config, state, timer, emitted, results, completed, anim, app, clock, particles, op>>

EndSentences ==
    /\ gen.pc = "sentences"
    /\ ~moreSentences
    /\ gen' = [gen EXCEPT !.pc = "words"]
    /\ UNCHANGED <<config, state, timer, emitted, results, completed, anim, app, clock, particles, op>>

\* one turn of the second loop: a word is read from the pool
DrawWord ==
    /\ gen.pc = "words"
    /\ moreWords
    /\ \E i \in 1..Len(gen.words) :
           gen' = [gen EXCEPT !.textParts = Append(@, gen.words[i]),
                              !.currentLength = @ + Len(gen.words[i]) + 1]
    /\ UNCHANGED <<config, state, timer, emitted, results, completed, anim, app, clock, particles, op>>

\* text = textParts.join(' '); this.state.currentText = text
JoinParts ==
    /\ gen.pc = "words"
    /\ ~moreWords
    /\ gen' = [gen EXCEPT !.pc = "done"]
    /\ state' = [state EXCEPT !.currentText = Join(gen.textParts)]
    /\ UNCHANGED <<config, timer, emitted, results, completed, anim, app, clock, particles, op>>

GenNext ==
    \/ GenSnippet
    \/ GenPools
    \/ DrawSentence
    \/ EndSentences
    \/ DrawWord
    \/ JoinParts

GenSpec == GenInit /\ [][GenNext]_vars

\* generateTestText() runs to its end without interruption
FairGenSpec == GenSpec /\ WF_vars(GenNext)

----------------------------------------------------------------------------
(* The background animation (animations.js)                                *)
(*                                                                         *)
(* Of an entity the model keeps what the handlers below read or count: of  *)
(* a Pac-Man its speed and velocity, of a ghost its speed, of a dot        *)
(* whether it was eaten.  Positions are not kept: whether a Pac-Man        *)
(* reaches an edge or a dot in a tick is a choice of the step.  The        *)
(* particles are followed in the section of the frame loop, further down;  *)
(* the drawing is left out.  The page holds the canvas element, so         *)
(* setupCanvas() does not throw.                                           *)

MantissaBits == 5      \* width of the significand of a Number (53 in JavaScript)
MaxEaten == 1          \* cap on the dots eaten in one tick
MaxBoosts == 2         \* cap on the calls of addPacmanMovement()
MaxCelebrations == 1   \* cap on the calls of addCompletionEffect()

pacmanCount == 4
ghostCount == 4
dotCount == 50

\* Numbers are binary floating point, m * 2^e with |m| of MantissaBits bits
\* (or 0); every operation rounds to nearest, ties to even
RECURSIVE Pow2(_)
Pow2(n) == IF n = 0 THEN 1 ELSE 2 * Pow2(n - 1)

Abs(i) == IF i < 0 THEN -i ELSE i
Sgn(i) == IF i < 0 THEN -1 ELSE 1

\* the Number nearest to n / d * 2^e, for n >= 0 and d > 0
RECURSIVE Round(_, _, _)
Round(n, d, e) ==
    IF n = 0 THEN [m |-> 0, e |-> 0]
    ELSE IF n >= d * Pow2(MantissaBits) THEN Round(n, 2 * d, e + 1)
    ELSE IF n < d * Pow2(MantissaBits - 1) THEN Round(2 * n, d, e - 1)
    ELSE LET q == n \div d
             r == n % d
             m == IF 2 * r > d \/ (2 * r = d /\ q % 2 = 1) THEN q + 1 ELSE q
         IN  IF m = Pow2(MantissaBits)
             THEN [m |-> Pow2(MantissaBits - 1), e |-> e + 1]
             ELSE [m |-> m, e |-> e]

\* a literal n/d of the source, e.g. 1.2
Number(n, d) == Round(n, d, 0)

\* a * b and a / b
Times(a, b) ==
    LET r == Round(Abs(a.m) * Abs(b.m), 1, a.e + b.e)
    IN  [m |-> Sgn(a.m) * Sgn(b.m) * r.m, e |-> r.e]
Over(a, b) ==
    LET r == Round(Abs(a.m), Abs(b.m), a.e - b.e)
    IN  [m |-> Sgn(a.m) * Sgn(b.m) * r.m, e |-> r.e]

\* const speeds = [2, 2.2, 1.8, 2.1] of createPacmanCharacters and
\* [1.5, 1.6, 1.4, 1.7] of createGhosts
pacmanSpeeds == <<Number(2, 1), Number(22, 10), Number(18, 10), Number(21, 10)>>
ghostSpeeds == <<Number(15, 10), Number(16, 10), Number(14, 10), Number(17, 10)>>

\* (Math.random() - 0.5) * speeds[i] for vx and vy of the four Pac-Men:
\* among them one half, one quarter and the largest Number below 1
Half == Number(1, 2)
Quarter == Number(1, 4)
BelowOne == [m |-> Pow2(MantissaBits) - 1, e |-> -MantissaBits]
Minus(x) == [x EXCEPT !.m = -@]
Velocities ==
    {<< <<Half, Minus(Half)>>, <<BelowOne, Quarter>>,
        <<Minus(Quarter), Half>>, <<Half, Half>> >>,
     << <<Minus(BelowOne), BelowOne>>, <<Quarter, Minus(Half)>>,
        <<Half, Quarter>>, <<Minus(Half), Minus(BelowOne)>> >>}

\* the Pac-Men that come to an edge of the canvas, and the axis they turn on
NearAnEdge == {<<1, "x">>, <<2, "y">>}

\* const boost = 1.2
boost == Number(12, 10)
two == Number(2, 1)

\* the AnimationManager after its constructor: the pools are empty and the
\* init() the constructor called waits at await this.loadAssets()
\* calls and awaiting count the calls of init() and those of them that have
\* not resumed; boosts and celebrations are the pending timers; created,
\* keystrokes, completions, removed and reverted record what has happened:
\* the Pac-Men as created, the calls of addPacmanMovement() and of
\* addCompletionEffect(), the dots the last tick removed, the timers fired
Constructed ==
    [pc |-> "constructed", calls |-> 1, awaiting |-> 1,
     isRunning |-> FALSE, animationId |-> NULL, pending |-> {},
     pacmanCharacters |-> <<>>, ghosts |-> <<>>,
     dots |-> [fresh |-> 0, eaten |-> 0],
     boosts |-> <<>>, celebrations |-> 0,
     created |-> <<>>, keystrokes |-> 0, completions |-> 0,
     removed |-> 0, reverted |-> 0]

createPacmanCharacters(a, v) ==
    LET made == [i \in 1..pacmanCount |->
                    [speed |-> pacmanSpeeds[i], vx |-> v[i][1], vy |-> v[i][2]]]
    IN  [a EXCEPT !.pacmanCharacters = made, !.created = made]

createGhosts(a) ==
    [a EXCEPT !.ghosts = [i \in 1..ghostCount |-> [speed |-> ghostSpeeds[i]]]]

addRandomDot(a) == [a EXCEPT !.dots.fresh = @ + 1]

\* for (let i = 0; i < this.config.dotCount; i++) this.addRandomDot()
RECURSIVE createDotsFrom(_, _)
createDotsFrom(a, i) ==
    IF i < dotCount THEN createDotsFrom(addRandomDot(a), i + 1) ELSE a

createDots(a) ==
    createDotsFrom([a EXCEPT !.dots = [fresh |-> 0, eaten |-> 0]], 0)

createEntities(a, v) == createDots(createGhosts(createPacmanCharacters(a, v)))

\* this.dots = this.dots.filter(dot => !dot.eaten); removed counts the dots
\* the filter dropped
removeEaten(a) == [a EXCEPT !.dots.eaten = 0, !.removed = a.dots.eaten]

\* faulty variant: no dot is added for an eaten one
maintainDotCount_Skipped(a) == a

\* while (this.dots.length < this.config.dotCount) this.addRandomDot()
RECURSIVE maintainDotCount(_)
maintainDotCount(a) ==
    IF a.dots.fresh + a.dots.eaten < dotCount
    THEN maintainDotCount(addRandomDot(a))
    ELSE a

updateDots(a) == maintainDotCount(removeEaten(a))

\* the Pac-Men of bounced reached a vertical edge (axis "x") or a
\* horizontal one (axis "y"): pacman.vx *= -1, pacman.vy *= -1
updatePacmanCharacters(a, bounced) ==
    [a EXCEPT
        !.pacmanCharacters =
            [i \in DOMAIN @ |->
                [@[i] EXCEPT
                    !.vx = IF <<i, "x">> \in bounced THEN Minus(@) ELSE @,
                    !.vy = IF <<i, "y">> \in bounced THEN Minus(@) ELSE @]]]

\* k dots that were not eaten lie within 20 pixels of a Pac-Man
checkCollisions(a, k) ==
    [a EXCEPT !.dots = [fresh |-> @.fresh - k, eaten |-> @.eaten + k]]

update(a, bounced, k) ==
    checkCollisions(updateDots(updatePacmanCharacters(a, bounced)), k)

\* requestAnimationFrame(): one more callback is pending under a handle that
\* no pending callback has; animate() keeps the handle in animationId
requestAnimationFrame(a) ==
    LET id == CHOOSE i \in 1..(Cardinality(a.pending) + 1) : i \notin a.pending
    IN  [a EXCEPT !.animationId = id, !.pending = @ \cup {id}]

\* cancelAnimationFrame(id): the callback under that handle will not run
cancelAnimationFrame(a, id) == [a EXCEPT !.pending = @ \ {id}]

\* animate(): a frame shorter than frameInterval is not simulated
animate(a, due, bounced, k) ==
    IF ~a.isRunning THEN a
    ELSE requestAnimationFrame(IF due THEN update(a, bounced, k) ELSE a)

\* faulty variant: start() does not look at isRunning
AnimationManager_start_Unguarded(a) ==
    animate([a EXCEPT !.isRunning = TRUE], FALSE, {}, 0)

AnimationManager_start(a) ==
    IF a.isRunning THEN a
    ELSE animate([a EXCEPT !.isRunning = TRUE], FALSE, {}, 0)

AnimationManager_stop(a) ==
    LET halted == [a EXCEPT !.isRunning = FALSE]
    IN  IF a.animationId # NULL
        THEN [cancelAnimationFrame(halted, a.animationId) EXCEPT !.animationId = NULL]
        ELSE halted

\* the callback pending under id is taken off the queue and runs animate()
frameCallback(a, id, due, bounced, k) ==
    animate([a EXCEPT !.pending = @ \ {id}], due, bounced, k)

\* faulty variant: a boost is not applied while one is active
addPacmanMovement_Guarded(a) ==
    IF a.boosts # <<>> THEN [a EXCEPT !.keystrokes = @ + 1]
    ELSE [a EXCEPT
            !.pacmanCharacters =
                [i \in DOMAIN @ |->
                    [@[i] EXCEPT !.vx = Times(@, boost), !.vy = Times(@, boost)]],
            !.boosts = @ \o [i \in DOMAIN a.pacmanCharacters |-> i],
            !.keystrokes = @ + 1]

\* every Pac-Man is boosted and a timer of 200 ms is set for each
addPacmanMovement(a) ==
    [a EXCEPT
        !.pacmanCharacters =
            [i \in DOMAIN @ |->
                [@[i] EXCEPT !.vx = Times(@, boost), !.vy = Times(@, boost)]],
        !.boosts = @ \o [i \in DOMAIN a.pacmanCharacters |-> i],
        !.keystrokes = @ + 1]

\* faulty variant: the timer of a boost restores the velocity along x only
boostTimeout_OneAxis(a) ==
    LET i == Head(a.boosts)
    IN  [a EXCEPT !.pacmanCharacters[i].vx = Over(@, boost),
                  !.boosts = Tail(@),
                  !.reverted = @ + 1]

\* the oldest timer of addPacmanMovement() fires
boostTimeout(a) ==
    LET i == Head(a.boosts)
    IN  [a EXCEPT !.pacmanCharacters[i].vx = Over(@, boost),
                  !.pacmanCharacters[i].vy = Over(@, boost),
                  !.boosts = Tail(@),
                  !.reverted = @ + 1]

addCompletionEffect(a) ==
    [a EXCEPT
        !.pacmanCharacters =
            [i \in DOMAIN @ |->
                [speed |-> Times(@[i].speed, two),
                 vx |-> Times(@[i].vx, two),
                 vy |-> Times(@[i].vy, two)]],
        !.celebrations = @ + 1,
        !.completions = @ + 1]

\* a timer of addCompletionEffect() fires, 3000 ms after it was set
celebrationTimeout(a) ==
    [a EXCEPT
        !.pacmanCharacters =
            [i \in DOMAIN @ |->
                [speed |-> Over(@[i].speed, two),
                 vx |-> Over(@[i].vx, two),
                 vy |-> Over(@[i].vy, two)]],
        !.celebrations = @ - 1,
        !.reverted = @ + 1]

\* init() was called twice and both calls have returned
Initialized == anim.calls = 2 /\ anim.awaiting = 0

AnimCommit(name, a) ==
    /\ anim' = a
    /\ op' = name
    /\ UNCHANGED <<config, state, timer, emitted, results, completed, gen, app,
                 clock, particles>>

AnimInit ==
    /\ config \in [time : Durations]
    /\ state = [isActive |-> FALSE, isPaused |-> FALSE, startTime |-> NULL,
                timeRemaining |-> 0, currentText |-> <<>>, typedText |-> <<>>,
                currentPosition |-> 0, errors |-> 0, totalChars |-> 0,
                correctChars |-> 0]
    /\ timer = NULL
    /\ emitted = <<>>
    /\ results = <<>>
    /\ completed = FALSE
    /\ gen = GenIdle
    /\ anim = Constructed
    /\ app = AppIdle
    /\ clock = ClockIdle
    /\ particles = NoParticles
    /\ op = "new"

\* initializeManagers() calls init() again, before the call of the
\* constructor has resumed
InitByApp ==
    /\ anim.calls = 1
    /\ AnimCommit("init", [anim EXCEPT !.calls = 2, !.awaiting = @ + 1])

\* a call of init() resumes after await this.loadAssets()
InitResumes ==
    /\ anim.calls = 2
    /\ anim.awaiting > 0
    /\ \E v \in Velocities :
           AnimCommit("createEntities",
                      createEntities([anim EXCEPT !.awaiting = @ - 1], v))

StartAnimation ==
    /\ Initialized
    /\ AnimCommit("start", AnimationManager_start(anim))

\* the animation frame requested by animate() arrives
Frame ==
    \E id \in anim.pending, due \in BOOLEAN, k \in 0..MaxEaten,
       bounced \in SUBSET NearAnEdge :
        /\ ~due => (k = 0 /\ bounced = {})
        /\ AnimCommit("frame", frameCallback(anim, id, due, bounced, k))

\* onCorrectKey of the session, wired by startGame()
OnCorrectKey ==
    /\ Initialized
    /\ anim.keystrokes < MaxBoosts
    /\ AnimCommit("addPacmanMovement", addPacmanMovement(anim))

\* completeGame()
OnCompletion ==
    /\ Initialized
    /\ anim.completions < MaxCelebrations
    /\ AnimCommit("addCompletionEffect", addCompletionEffect(anim))

BoostTimeout ==
    /\ anim.boosts # <<>>
    /\ AnimCommit("boostTimeout", boostTimeout(anim))

CelebrationTimeout ==
    /\ anim.celebrations > 0
    /\ AnimCommit("celebrationTimeout", celebrationTimeout(anim))

AnimNext ==
    \/ InitByApp
    \/ InitResumes
    \/ StartAnimation
    \/ Frame
    \/ OnCorrectKey
    \/ OnCompletion
    \/ BoostTimeout
    \/ CelebrationTimeout

AnimSpec == AnimInit /\ [][AnimNext]_vars

(***************************************************************************)
(* The frame loop and the particle pool                                    *)
(*                                                                         *)
(* start(), stop() and the frame callbacks, together with the particles    *)
(* that update() ages and the two effects create.  The pool is kept as     *)
(* its cohorts: the particles that share a remaining life, and their       *)
(* number.  A frame is simulated a whole number of seconds after the       *)
(* last one.  One particle is singled out when it is created               *)
(* (particles.tracked holds its remaining life) to follow it to its        *)
(* removal.                                                                *)
(***************************************************************************)
MaxDelta == 2

maxParticles == 20
eatingParticles == 5
eatingLife == 1000
celebrationParticles == 50
celebrationLife == 3000

Deltas == {1000 * i : i \in 1..MaxDelta}

\* this.particles.push(...), n times, of particles with the same life
push(pool, life, n) ==
    IF n = 0 THEN pool
    ELSE IF \E p \in pool : p.life = life
    THEN {IF p.life = life THEN [p EXCEPT !.n = @ + n] ELSE p : p \in pool}
    ELSE pool \cup {[life |-> life, n |-> n]}

\* the pool after n pushes; the singled-out particle is one of them on request
pushed(ps, life, n, track) ==
    [pool |-> push(ps.pool, life, n),
     tracked |-> IF track /\ n > 0 /\ ps.tracked = <<>> THEN <<life>>
                 ELSE ps.tracked]

\* faulty variant: a particle is kept until its life is below zero
alive_UntilNegative(p) == p.life >= 0

\* the filter of updateParticles()
alive(p) == p.life > 0

updateParticles(ps, deltaTime) ==
    LET aged == {[p EXCEPT !.life = @ - deltaTime] : p \in ps.pool}
        kept == {p \in aged : alive(p)}
    IN  [pool |-> kept,
         tracked |-> IF /\ ps.tracked # <<>>
                        /\ \E p \in kept : p.life = ps.tracked[1] - deltaTime
                     THEN <<ps.tracked[1] - deltaTime>>
                     ELSE <<>>]

addEatingParticle(ps, track) == pushed(ps, eatingLife, eatingParticles, track)

\* checkCollisions(): one call of addEatingParticle() for each of k eaten dots
RECURSIVE collisionParticles(_, _, _)
collisionParticles(ps, k, track) ==
    IF k = 0 THEN ps
    ELSE collisionParticles(addEatingParticle(ps, track), k - 1, track)

\* the particles of addCompletionEffect()
completionParticles(ps, track) ==
    pushed(ps, celebrationLife, celebrationParticles, track)

\* the particles after update(deltaTime): aged and filtered, then the
\* collisions of the frame
updatedParticles(ps, deltaTime, k, track) ==
    LET aged == updateParticles(ps, deltaTime)
    IN  collisionParticles(aged, k, track /\ ps.tracked = <<>>)

\* the particles after animate()
animatedParticles(a, ps, due, deltaTime, k, track) ==
    IF a.isRunning /\ due THEN updatedParticles(ps, deltaTime, k, track) ELSE ps

LoopCommit(name, a, ps) ==
    /\ anim' = a
    /\ particles' = ps
    /\ op' = name
    /\ UNCHANGED <<config, state, timer, emitted, results, completed, gen, app,
                 clock>>

StopAnimation ==
    /\ Initialized
    /\ AnimCommit("stop", AnimationManager_stop(anim))

\* a frame callback arrives; due: frameInterval has passed since the last
\* simulated frame.  No character is near an edge of the canvas.
LoopFrame(due) ==
    \E id \in anim.pending, k \in 0..MaxEaten,
       deltaTime \in (IF due THEN Deltas ELSE {0}), track \in BOOLEAN :
        /\ ~due => (k = 0 /\ ~track)
        /\ k = 0 => ~track
        /\ LoopCommit("frame", frameCallback(anim, id, due, {}, k),
                      animatedParticles(anim, particles, due, deltaTime, k,
                                        track))

SkippedFrame == LoopFrame(FALSE)

SimulatedFrame == LoopFrame(TRUE)

LoopCompletion ==
    /\ Initialized
    /\ anim.completions < MaxCelebrations
    /\ \E track \in BOOLEAN :
           LoopCommit("addCompletionEffect", addCompletionEffect(anim),
                      completionParticles(particles, track))

LoopNext ==
    \/ InitByApp
    \/ InitResumes
    \/ StartAnimation
    \/ StopAnimation
    \/ SkippedFrame
    \/ SimulatedFrame
    \/ LoopCompletion
    \/ CelebrationTimeout

LoopSpec == AnimInit /\ [][LoopNext]_vars

\* requestAnimationFrame delivers a pending callback, and the time since
\* the last simulated frame grows until it reaches frameInterval
FairLoopSpec == LoopSpec /\ WF_vars(SimulatedFrame)

----------------------------------------------------------------------------
(* The application (app.js)                                                *)
(*                                                                         *)
(* The app owns one session and shows one screen.  Of the page the model   *)
(* keeps the disabled flag of the typing input, which the session writes   *)
(* (typingTest.js 190, 212, 223, 235): a disabled input takes no input     *)
(* and is the target of no keydown event.  A button is clicked while its   *)
(* screen is shown.  The sounds and the animation are left out.            *)

Keys == {"Escape", "Enter", "r", "R"}
Targets == {"typingInput", "body"}
NoEvent == [key |-> "none", target |-> "none"]

\* the app and its session, as the handlers below take and return them
AppSelf ==
    [session |-> Self, currentScreen |-> app.currentScreen,
     disabled |-> app.disabled]

switchScreen(p, screenName) == [p EXCEPT !.currentScreen = screenName]

\* onComplete, wired by startGame()
completeGame(p) == switchScreen(p, "results")

\* the session has run a handler: stop() within completeTest() has disabled
\* the input, and onComplete has been invoked
Returned(p, o) ==
    IF \E i \in 1..Len(o.emitted) : o.emitted[i] = "complete"
    THEN completeGame([p EXCEPT !.session = o, !.disabled = TRUE])
    ELSE [p EXCEPT !.session = o]

\* configure() enables the input in resetState()
startGame(p, time, text, now) ==
    LET configured == [p EXCEPT !.session = configure(@, time, text),
                                !.disabled = FALSE]
        shown == switchScreen(configured, "game")
    IN  [shown EXCEPT !.session = start(@, now)]

\* faulty variant: the session is paused and the screen stays
pauseGame_KeepsScreen(p) ==
    [p EXCEPT !.session = pause(@), !.disabled = TRUE]

pauseGame(p) ==
    switchScreen([p EXCEPT !.session = pause(@), !.disabled = TRUE], "pause")

resumeGame(p) ==
    switchScreen([p EXCEPT !.session = resume(@), !.disabled = FALSE], "game")

\* retryGame(), restartGame() and retryFromResults() are the same two
\* calls; the text reset() draws is replaced by the one configure() draws
retryGame(p, time, text, now) ==
    startGame([p EXCEPT !.session = reset(@, text), !.disabled = FALSE],
              time, text, now)

\* exitGame(), quitGame() and goHome() are the same two calls
exitGame(p) ==
    switchScreen([p EXCEPT !.session = stop(@), !.disabled = TRUE], "home")

\* the test of the first line: the event comes from the typing input
whileTyping(e) == e.target = "typingInput"

handleKeyboardShortcuts(p, e, time, text, now) ==
    IF whileTyping(e) THEN p
    ELSE CASE e.key = "Escape" ->
                  IF p.currentScreen = "game" THEN pauseGame(p)
                  ELSE IF p.currentScreen = "pause" THEN resumeGame(p)
                  ELSE p
           [] e.key = "Enter" ->
                  IF p.currentScreen = "home"
                  THEN startGame(p, time, text, now)
                  ELSE p
           [] e.key \in {"r", "R"} ->
                  IF p.currentScreen \in {"results", "pause"}
                  THEN retryGame(p, time, text, now)
                  ELSE p
           [] OTHER -> p

AppCommit(name, e, p) ==
    \E q \in {p} :
        /\ op' = name
        /\ config' = q.session.config
        /\ state' = q.session.state
        /\ timer' = q.session.timer
        /\ emitted' = q.session.emitted
        /\ results' = q.session.results
        /\ completed' = q.session.completed
        /\ app' = [currentScreen |-> q.currentScreen, disabled |-> q.disabled,
                   key |-> e.key, target |-> e.target]
        /\ UNCHANGED <<gen, anim, clock, particles>>

\* the app and its managers are constructed and the loading screen is shown
AppInit ==
    /\ config \in [time : Durations]
    /\ state = [isActive |-> FALSE, isPaused |-> FALSE, startTime |-> NULL,
                timeRemaining |-> 0, currentText |-> <<>>, typedText |-> <<>>,
                currentPosition |-> 0, errors |-> 0, totalChars |-> 0,
                correctChars |-> 0]
    /\ timer = NULL
    /\ emitted = <<>>
    /\ results = <<>>
    /\ completed = FALSE
    /\ gen = GenIdle
    /\ anim = AnimIdle
    /\ app = [currentScreen |-> "loading", disabled |-> FALSE,
              key |-> "none", target |-> "none"]
    /\ clock = ClockIdle
    /\ particles = NoParticles
    /\ op = "new"

\* startLoadingSequence(), after its sleep
LoadingDone ==
    /\ app.currentScreen = "loading"
    /\ AppCommit("loaded", NoEvent, switchScreen(AppSelf, "home"))

ClickStart ==
    /\ app.currentScreen = "home"
    /\ \E time \in Durations, text \in Texts, now \in Timestamps :
           AppCommit("startButton", NoEvent, startGame(AppSelf, time, text, now))

ClickPause ==
    /\ app.currentScreen = "game"
    /\ AppCommit("pauseButton", NoEvent, pauseGame(AppSelf))

\* retryButton on the game screen, restartButton on the pause screen,
\* retryTestButton on the results screen
ClickRetry ==
    /\ app.currentScreen \in {"game", "pause", "results"}
    /\ \E time \in Durations, text \in Texts, now \in Timestamps :
           AppCommit("retryButton", NoEvent, retryGame(AppSelf, time, text, now))

\* exitButton on the game screen, quitButton on the pause screen,
\* homeButton on the results screen
ClickExit ==
    /\ app.currentScreen \in {"game", "pause", "results"}
    /\ AppCommit("exitButton", NoEvent, exitGame(AppSelf))

ClickResume ==
    /\ app.currentScreen = "pause"
    /\ AppCommit("resumeButton", NoEvent, resumeGame(AppSelf))

\* a keydown event reaches the document
KeyDown ==
    \E key \in Keys, target \in Targets,
       time \in Durations, text \in Texts, now \in Timestamps :
        /\ target = "typingInput" => ~app.disabled
        /\ AppCommit("keydown", [key |-> key, target |-> target],
                     handleKeyboardShortcuts(AppSelf,
                         [key |-> key, target |-> target], time, text, now))

\* an input event of the typing input
Type ==
    /\ ~app.disabled
    /\ \E inputValue \in (IF inputRejected(Self) THEN {<<>>} ELSE Inputs) :
           \E o \in {handleInput(Self, inputValue)} :
               /\ o.state.totalChars <= MaxKeystrokes
               /\ AppCommit("input", NoEvent, Returned(AppSelf, o))

\* the interval of the session fires
AppTick ==
    /\ timer # NULL
    /\ \E o \in {timerCallback(Self)} :
           /\ o.state.timeRemaining >= -MaxOverrun
           /\ AppCommit("timer", NoEvent, Returned(AppSelf, o))

AppNext ==
    \/ LoadingDone
    \/ ClickStart
    \/ ClickPause
    \/ ClickRetry
    \/ ClickExit
    \/ ClickResume
    \/ KeyDown
    \/ Type
    \/ AppTick

AppSpec == AppInit /\ [][AppNext]_vars

----------------------------------------------------------------------------
(* The session against the clock                                           *)
(*                                                                         *)
(* setInterval(callback, 1000) fires one second after it was armed and     *)
(* every second after that; clearInterval() forgets how far the second     *)
(* had got.  The clock is read Resolution times a second.                  *)

Resolution == 2

\* the seconds of config.time
Seconds == (config.time * 60) \div TimeUnit

\* the longest running time that is followed
MaxRan == (MaxTime + MaxOverrun + 1) * Resolution

ClockCommit(name, o, c) ==
    /\ op' = name
    /\ config' = o.config
    /\ state' = o.state
    /\ timer' = o.timer
    /\ emitted' = o.emitted
    /\ results' = o.results
    /\ completed' = o.completed
    /\ clock' = c
    /\ UNCHANGED <<gen, anim, app, particles>>

ClockInit ==
    /\ config \in [time : Durations]
    /\ state = [isActive |-> FALSE, isPaused |-> FALSE, startTime |-> NULL,
                timeRemaining |-> 0, currentText |-> <<>>, typedText |-> <<>>,
                currentPosition |-> 0, errors |-> 0, totalChars |-> 0,
                correctChars |-> 0]
    /\ timer = NULL
    /\ emitted = <<>>
    /\ results = <<>>
    /\ completed = FALSE
    /\ gen = GenIdle
    /\ anim = AnimIdle
    /\ app = AppIdle
    /\ clock = ClockIdle
    /\ particles = NoParticles
    /\ op = "new"

ClockConfigure ==
    \E time \in Durations, text \in Texts :
        ClockCommit("configure", configure(Self, time, text), clock)

\* start() arms the interval; the running time is counted from here
ClockStart ==
    \E now \in Timestamps :
        ClockCommit("start", start(Self, now), [sinceArmed |-> 0, ran |-> 0])

ClockPause == ClockCommit("pause", pause(Self), clock)

\* resume() arms a new interval
ClockResume ==
    ClockCommit("resume", resume(Self), [clock EXCEPT !.sinceArmed = 0])

\* 1000 / Resolution milliseconds pass while the interval is armed and not
\* yet due
Elapse ==
    /\ timer # NULL
    /\ clock.sinceArmed < Resolution
    /\ clock.ran < MaxRan
    /\ ClockCommit("elapse", [Self EXCEPT !.emitted = emitted],
                   [sinceArmed |-> clock.sinceArmed + 1,
                    ran |-> IF isRunning(Self) THEN clock.ran + 1 ELSE clock.ran])

\* the interval is due and fires
IntervalFires ==
    /\ timer # NULL
    /\ clock.sinceArmed = Resolution
    /\ \E o \in {timerCallback(Self)} :
           /\ o.state.timeRemaining >= -MaxOverrun
           /\ ClockCommit("timer", o, [clock EXCEPT !.sinceArmed = 0])

ClockNext ==
    \/ ClockConfigure
    \/ ClockStart
    \/ ClockPause
    \/ ClockResume
    \/ Elapse
    \/ IntervalFires

ClockSpec == ClockInit /\ [][ClockNext]_vars

----------------------------------------------------------------------------
(* Vocabulary of the properties *)

Running == Phase = "running"

Text == state.currentText
Typed == state.typedText
Position == state.currentPosition

Emitted(ev) == \E i \in 1..Len(emitted) : emitted[i] = ev

Stats == calculateStats(Self)

\* the step is the delivery of an input event whose buffer is v
Delivered(v) == op' = "input" /\ Commit("input", handleInput(Self, v))

\* the step is a firing of the interval
Fired == op' = "timer" /\ timer # NULL /\ Commit("timer", timerCallback(Self))

\* what getStats() returned
Snapshot == results[1]

\* config.difficulty and config.language are registered keys, or name
\* nothing at all
PlainKeys ==
    /\ ~Inherits(contentData.difficulties, config.difficulty)
    /\ ~Inherits(contentData.code_snippets, config.language)

\* the elements of a pool
Elements(pool) == {pool[i] : i \in 1..Len(pool)}

\* the pools generateTestText() draws from in words mode
SentencePool == Elements(Difficulty(config.difficulty).sentences)
WordPool == Elements(Difficulty(config.difficulty).words)

\* the length the loops of generateTestText() have accumulated over parts
RECURSIVE Accumulated(_)
Accumulated(parts) ==
    IF parts = <<>> THEN 0 ELSE Len(parts[1]) + 1 + Accumulated(Tail(parts))

\* the step adds a part to textParts
Drawn == Len(gen'.textParts) = Len(gen.textParts) + 1
NewPart == gen'.textParts[Len(gen'.textParts)]

\* the sizes of the pools of the animation
Pacmen == Len(anim.pacmanCharacters)
Ghosts == Len(anim.ghosts)
Dots == anim.dots.fresh + anim.dots.eaten

\* createEntities() has run
Populated == anim.pc = "constructed" /\ anim.awaiting < anim.calls

\* every timer of addPacmanMovement() and addCompletionEffect() has fired
Settled == Initialized /\ anim.boosts = <<>> /\ anim.celebrations = 0

\* the Numbers x and y have the same magnitude
SameSize(x, y) == Abs(x.m) = Abs(y.m) /\ x.e = y.e

\* the magnitudes of x and y differ by at most k / 2^(MantissaBits - 1) of
\* the magnitude of y: k roundings of a product and its quotient
Within(x, y, k) ==
    LET lo == IF x.e < y.e THEN x.e ELSE y.e
        a == Abs(x.m) * Pow2(x.e - lo)
        b == Abs(y.m) * Pow2(y.e - lo)
    IN  Abs(a - b) * Pow2(MantissaBits - 1) <= k * b

\* x multiplied n times by the boost factor, and k times by two
RECURSIVE Boosted(_, _)
Boosted(x, n) == IF n = 0 THEN x ELSE Times(Boosted(x, n - 1), boost)
RECURSIVE Doubled(_, _)
Doubled(x, k) == IF k = 0 THEN x ELSE Times(Doubled(x, k - 1), two)

\* the step is an Escape keydown event
EscapePressed == op' = "keydown" /\ app'.key = "Escape"

\* how often the callback ev was invoked by the step
RECURSIVE CountOf(_, _)
CountOf(ev, seq) ==
    IF seq = <<>> THEN 0
    ELSE (IF Head(seq) = ev THEN 1 ELSE 0) + CountOf(ev, Tail(seq))

\* the step is an input event that the running session takes; it is an
\* insertion unless the buffer got shorter
InputTaken == op' = "input" /\ ~inputRejected(Self)
Insertion == InputTaken /\ Len(state'.typedText) >= Len(state.typedText)

\* the call of generateTestText() has assigned currentText
Generated == gen.pc = "done"

\* the operations that interrupt a session
Interrupts == {"pause", "stop", "reset", "configure"}

\* the input buffers of length n
InputsOfLen(n) == IF n <= MaxLen + 1 THEN [1..n -> Alphabet] ELSE {}

\* everything typed so far was typed right, once
CleanRun ==
    /\ Position <= Len(Text)
    /\ Typed = SubSeq(Text, 1, Position)
    /\ state.totalChars = Position
    /\ state.correctChars = Position
    /\ state.errors = 0

----------------------------------------------------------------------------
(* C1: the phase changes only along idle->running, running->paused,        *)
(* paused->running, running->completed, running|paused->stopped and, by    *)
(* reset or configure, to idle (reset() stops the session before it        *)
(* resets it, so a running or paused session passes through stopped        *)
(* inside the call).                                                       *)

PhaseEdges ==
    {<<"idle", "running">>, <<"running", "paused">>, <<"paused", "running">>,
     <<"running", "completed">>, <<"running", "stopped">>, <<"paused", "stopped">>,
     <<"stopped", "idle">>, <<"completed", "idle">>}

C1_PhaseEdges ==
    [][Phase' # Phase =>
          \/ <<Phase, Phase'>> \in PhaseEdges
          \/ Phase' = "idle" /\ op' \in {"reset", "configure"}]_vars

----------------------------------------------------------------------------
(* C2: in every reachable state currentPosition is the length of           *)
(* typedText.                                                              *)

C2_PositionIsLength == state.currentPosition = Len(state.typedText)

C2_Witness ==
    /\ op = "input"
    /\ Emitted("incorrectKey")
    /\ Len(state.typedText) = 2
    /\ state.currentPosition = 2

----------------------------------------------------------------------------
(* C3: in every reachable state correctChars <= totalChars and             *)
(* errors >= 0.                                                            *)

C3_CountersOrdered ==
    /\ state.correctChars <= state.totalChars
    /\ state.errors >= 0

C3_Witness ==
    /\ op = "input"
    /\ state.totalChars = 2
    /\ state.correctChars = 1
    /\ state.errors = 1

----------------------------------------------------------------------------
(* C4: in a running session whose buffer so far was typed right, key by    *)
(* key, the insertion of the next character of the text keeps it so; the   *)
(* session stays running while the buffer is shorter than the text and     *)
(* becomes completed on the keystroke that reaches the length of the       *)
(* text, with correctChars = totalChars = the length of the text, no       *)
(* errors and an accuracy of 100.                                          *)

C4_MatchingKeysComplete ==
    [][(op' = "input" /\ Running /\ CleanRun /\ Position < Len(Text)) =>
          LET v == Append(Typed, Text[Position + 1])
          IN  Delivered(v) =>
                  /\ CleanRun'
                  /\ Position' = Position + 1
                  /\ IF Position' = Len(Text)
                     THEN /\ Phase' = "completed"
                          /\ state'.correctChars = Len(Text)
                          /\ state'.totalChars = Len(Text)
                          /\ state'.errors = 0
                          /\ RatEq(Stats'.accuracy, <<100, 1>>)
                     ELSE Phase' = "running"]_vars

C4_Witness ==
    /\ op = "input"
    /\ Phase = "completed"
    /\ Len(Text) = 2
    /\ Typed = Text
    /\ state.correctChars = 2
    /\ state.totalChars = 2
    /\ state.errors = 0
    /\ emitted = <<"correctKey", "complete">>

----------------------------------------------------------------------------
(* C5: while running, a one-character insertion whose new character        *)
(* differs from the character of the text at currentPosition adds one to   *)
(* totalChars and to errors, leaves correctChars alone, and is accepted:   *)
(* typedText becomes the new buffer and currentPosition advances by one.   *)

C5_WrongKeyAccepted ==
    [][(op' = "input" /\ Running) =>
          \A v \in InputsOfLen(Len(Typed) + 1) :
              (CharAt(v, Len(v) - 1) # CharAt(Text, Position) /\ Delivered(v)) =>
                  /\ state'.totalChars = state.totalChars + 1
                  /\ state'.errors = state.errors + 1
                  /\ state'.correctChars = state.correctChars
                  /\ state'.typedText = v
                  /\ state'.currentPosition = Position + 1
                  /\ Emitted("incorrectKey")'
                  /\ ~Emitted("correctKey")']_vars

\* the text is ab; a is typed, then a wrong a
C5_Witness ==
    /\ op = "input"
    /\ Text = <<"a", "b">>
    /\ Typed = <<"a", "a">>
    /\ state.totalChars = 2
    /\ state.correctChars = 1
    /\ state.errors = 1
    /\ emitted = <<"incorrectKey", "stats">>

----------------------------------------------------------------------------
(* C6, as stated: after an insertion processed while running, in either    *)
(* branch, if currentPosition now equals the length of the text then       *)
(* completeTest() is called and the session leaves the running phase.      *)

C6_CompleteInEitherBranch ==
    [][(op' = "input" /\ Running /\ Position' = Len(Text)) =>
          \A v \in Inputs :
              (Len(v) >= Len(Typed) /\ Delivered(v)) =>
                  (Emitted("complete")' /\ Phase' # "running")]_vars

(* C6, amended: after an input event processed while running that is not   *)
(* a deletion, completeTest() is called exactly when the new character     *)
(* matched the expected one and currentPosition is now at least the        *)
(* length of the text; after a mismatch the session stays running, also    *)
(* when currentPosition has reached the length of the text.                *)

C6_CompleteOnlyAfterMatch ==
    [][(op' = "input" /\ Running) =>
          \* the buffer of the event is the one the step leaves in typedText
          LET v == state'.typedText
          IN  /\ Delivered(v)
              /\ Len(v) >= Len(Typed) =>
                     IF /\ CharAt(v, Len(v) - 1) = CharAt(Text, Position)
                        /\ Len(v) >= Len(Text)
                     THEN /\ Phase' = "completed"
                          /\ emitted' = <<"correctKey", "complete">>
                     ELSE /\ Phase' = "running"
                          /\ ~Emitted("complete")']_vars

\* a wrong character at the last position: the session still runs
C6_Witness ==
    /\ op = "input"
    /\ Running
    /\ Len(Text) > 0
    /\ Position = Len(Text)
    /\ emitted = <<"incorrectKey", "stats">>

----------------------------------------------------------------------------
(* C7, as stated: when a keystroke moves the session from running to       *)
(* completed, typedText equals the text.                                   *)

C7_CompletedBufferIsText ==
    (op = "input" /\ Emitted("complete")) => Typed = Text

(* C7, amended: when a keystroke moves the session from running to         *)
(* completed, that keystroke was a correct one (the last character of the  *)
(* new buffer is the character of the text at the previous                 *)
(* currentPosition), the buffer is not shorter than before and             *)
(* currentPosition is now at least the length of the text; the characters  *)
(* typed before it may be wrong.                                           *)

C7_CompletedByCorrectKey ==
    [][(op' = "input" /\ Running /\ Phase' = "completed") =>
          \A v \in Inputs :
              Delivered(v) =>
                  /\ Len(v) >= Len(Typed)
                  /\ CharAt(v, Len(v) - 1) = CharAt(Text, Position)
                  /\ state'.typedText = v
                  /\ Position' >= Len(Text)]_vars

\* completed by a keystroke with a buffer that differs from the text
C7_Witness ==
    /\ op = "input"
    /\ Phase = "completed"
    /\ Emitted("complete")
    /\ Len(Text) > 0
    /\ Len(Typed) = Len(Text)
    /\ Typed # Text

----------------------------------------------------------------------------
(* C8: in every reachable state of a session with a non-empty text,        *)
(* currentPosition <= the length of the text, so the progress of           *)
(* calculateStats is at most 100.                                          *)

C8_PositionWithinText ==
    Len(Text) > 0 =>
        /\ Position <= Len(Text)
        /\ RatLE(Stats.progress, <<100, 1>>)

----------------------------------------------------------------------------
(* C9: an input event delivered while the session is not running changes   *)
(* nothing of the session and invokes no callback.                         *)

C9_InputIgnoredUnlessRunning ==
    [][(op' = "input" /\ ~Running) =>
          \A v \in Inputs :
              Delivered(v) =>
                  /\ state' = state
                  /\ config' = config
                  /\ timer' = timer
                  /\ completed' = completed
                  /\ emitted' = <<>>]_vars

\* an input event reached a paused session that holds typed text
C9_Witness ==
    /\ op = "input"
    /\ Phase = "paused"
    /\ Typed # <<>>
    /\ emitted = <<>>

----------------------------------------------------------------------------
(* C10: while the session is running, a firing of the interval takes one   *)
(* off timeRemaining; the firing that brings it to zero calls              *)
(* completeTest() (the phase becomes completed, onComplete is invoked)     *)
(* and emits no stats update, and a firing that leaves it positive emits   *)
(* a stats update and leaves the session running.                          *)

C10_TickCountsDown ==
    [][(op' = "timer" /\ Running /\ Fired) =>
          /\ state'.timeRemaining = state.timeRemaining - 1
          /\ (state'.timeRemaining = 0 =>
                 Phase' = "completed" /\ emitted' = <<"complete">>)
          /\ (state'.timeRemaining > 0 =>
                 Phase' = "running" /\ emitted' = <<"stats">>)]_vars

\* the second firing of a two-second countdown
C10_Witness ==
    /\ op = "timer"
    /\ Phase = "completed"
    /\ state.timeRemaining = 0
    /\ config.time = 2
    /\ emitted = <<"complete">>

----------------------------------------------------------------------------
(* C11: a running session eventually                                       *)
(* becomes completed, unless it is paused, stopped, reset or reconfigured  *)
(* first, given that the armed interval keeps firing.                      *)

C11_RunningLeadsToCompleted ==
    (Running /\ state.timeRemaining > -MaxOverrun) ~>
        (Phase = "completed" \/ op \in Interrupts)

\* nothing was typed and the countdown ran out
C11_Witness ==
    /\ op = "timer"
    /\ Phase = "completed"
    /\ config.time > 0
    /\ state.timeRemaining = 0
    /\ state.totalChars = 0
    /\ emitted = <<"complete">>

----------------------------------------------------------------------------
(* C12: pause() on a running session sets isPaused, disarms the interval   *)
(* and changes nothing else; while the session stays paused no operation   *)
(* and no firing of the interval changes the state (timeRemaining          *)
(* included); resume() on a paused session clears isPaused, arms the       *)
(* interval and leaves timeRemaining, typedText, currentPosition, the      *)
(* counters and startTime as they were, so the countdown goes on from the  *)
(* frozen timeRemaining.                                                   *)

C12_PauseFreezes ==
    [][/\ (op' = "pause" /\ Running) =>
              /\ Phase' = "paused"
              /\ timer' = NULL
              /\ state' = [state EXCEPT !.isPaused = TRUE]
       /\ (Phase = "paused" /\ Phase' = "paused") => state' = state
       /\ (op' = "timer" /\ state.isPaused) => state' = state
       /\ (op' = "resume" /\ Phase = "paused") =>
              /\ Phase' = "running"
              /\ timer' # NULL
              /\ state' = [state EXCEPT !.isPaused = FALSE]]_vars

\* resumed with one second gone and one character typed
C12_Witness ==
    /\ op = "resume"
    /\ Running
    /\ timer # NULL
    /\ state.timeRemaining = config.time - 1
    /\ Len(Typed) = 1

----------------------------------------------------------------------------
(* C13: stop() leaves the session inactive with the interval disarmed;     *)
(* while the session is inactive the callback of the interval, were it to  *)
(* run, changes nothing and invokes no callback, so timeRemaining is not   *)
(* decremented and completeTest() is not called by the timer; timeRemaining*)
(* of an inactive session changes only by reset() or configure(), and the  *)
(* session becomes active again only by start().                           *)

C13_NoTickAfterStop ==
    [][/\ op' = "stop" => (timer' = NULL /\ ~state'.isActive)
       /\ ~state.isActive =>
              /\ timerCallback(Self) = Self
              /\ op' = "timer" =>
                     (state' = state /\ emitted' = <<>> /\ completed' = completed)
              /\ op' \notin {"reset", "configure"} =>
                     state'.timeRemaining = state.timeRemaining
              /\ state'.isActive => op' = "start"]_vars

\* stopped with a second gone; resume() armed the interval and it fired
C13_Witness ==
    /\ op = "timer"
    /\ Phase = "stopped"
    /\ timer # NULL
    /\ state.timeRemaining = config.time - 1
    /\ emitted = <<>>

----------------------------------------------------------------------------
(* C14: in every reachable state the interval is armed only if the         *)
(* session is running.                                                     *)

C14_TimerOnlyWhileRunning == timer # NULL => Running

----------------------------------------------------------------------------
(* C15: from every reachable state, stop() called twice in a row leaves    *)
(* the session as stop() called once does: the same flags (so the same     *)
(* phase), typedText, currentPosition, counters and timeRemaining, the     *)
(* interval disarmed, and no callback invoked.                             *)

C15_StopIdempotent ==
    LET once == stop(Self)
        twice == stop([once EXCEPT !.emitted = <<>>])
    IN  /\ once.timer = NULL
        /\ ~once.state.isActive
        /\ twice.state = once.state
        /\ twice.timer = once.timer
        /\ twice.completed = once.completed
        /\ twice.config = once.config
        /\ twice.emitted = <<>>
        /\ op = "stop" => (once.state = state /\ once.timer = timer)

\* a paused session with typed text and a second gone was stopped
C15_Witness ==
    /\ op = "stop"
    /\ Phase = "stopped"
    /\ state.isPaused
    /\ timer = NULL
    /\ Len(Typed) = 1
    /\ state.timeRemaining = config.time - 1

----------------------------------------------------------------------------
(* C16: from any phase, after reset() or configure() the session is idle   *)
(* (inactive, not paused, startTime cleared), the three counters are 0,    *)
(* typedText is empty, currentPosition is 0, timeRemaining is the          *)
(* configured duration in seconds and the interval is disarmed.            *)

C16_ResetYieldsIdle ==
    [][op' \in {"reset", "configure"} =>
          /\ Phase' = "idle"
          /\ ~state'.isActive
          /\ ~state'.isPaused
          /\ state'.startTime = NULL
          /\ state'.correctChars = 0
          /\ state'.totalChars = 0
          /\ state'.errors = 0
          /\ state'.typedText = <<>>
          /\ state'.currentPosition = 0
          /\ state'.timeRemaining = (config'.time * 60) \div TimeUnit
          /\ timer' = NULL
          /\ emitted' = <<>>]_vars

\* configured anew, with a text of two characters
C16_Witness ==
    /\ op = "configure"
    /\ Phase = "idle"
    /\ Len(Text) = 2
    /\ state.timeRemaining = config.time
    /\ state.timeRemaining > 0
    /\ timer = NULL

----------------------------------------------------------------------------
(* C17: a step that takes a running session to completed is an input       *)
(* event or a firing of the interval; it disarms the interval and invokes  *)
(* onComplete exactly once, as the last callback of the step, with the     *)
(* statistics of the state it leaves.  No other step invokes onComplete,   *)
(* so a completed session emits it again only after start() has made it    *)
(* run again.                                                              *)

C17_CompletesOnce ==
    [][/\ (Running /\ Phase' = "completed") =>
              /\ op' \in {"input", "timer"}
              /\ timer' = NULL
              /\ Cardinality({i \in DOMAIN emitted' : emitted'[i] = "complete"}) = 1
              /\ emitted'[Len(emitted')] = "complete"
              /\ results' = <<Stats'>>
       /\ ~(Running /\ Phase' = "completed") =>
              (~Emitted("complete")' /\ results' = <<>>)
       /\ (Phase = "completed" /\ Phase' = "running") => op' = "start"]_vars

\* completed by the timer after a right and a wrong keystroke
C17_Witness ==
    /\ op = "timer"
    /\ Phase = "completed"
    /\ timer = NULL
    /\ emitted = <<"complete">>
    /\ Len(results) = 1
    /\ results[1].correctChars = 1
    /\ results[1].errors = 1
    /\ results[1].timeRemaining = 0

----------------------------------------------------------------------------
(* C18: while running, an input event whose buffer is shorter than         *)
(* typedText sets typedText to the buffer and currentPosition to its       *)
(* length and changes nothing else: totalChars, correctChars, errors,      *)
(* timeRemaining, the text and the phase stay, the interval stays armed,   *)
(* and only a stats update is emitted (no correct-key, no incorrect-key).  *)

C18_DeletionTrims ==
    [][(op' = "input" /\ Running) =>
          \A n \in 0..(Len(Typed) - 1) :
              \A v \in InputsOfLen(n) :
                  Delivered(v) =>
                      /\ state' = [state EXCEPT !.typedText = v,
                                                !.currentPosition = Len(v)]
                      /\ Phase' = "running"
                      /\ timer' = timer
                      /\ config' = config
                      /\ emitted' = <<"stats">>]_vars

\* two keystrokes, then the buffer was cut back to its first character
C18_Witness ==
    /\ op = "input"
    /\ Running
    /\ emitted = <<"stats">>
    /\ Len(Typed) = 1
    /\ state.totalChars = 2
    /\ state.correctChars + state.errors = 2

----------------------------------------------------------------------------
(* C19: no operation other than reset() and configure() decreases          *)
(* correctChars, totalChars or errors; and a wrong character inserted      *)
(* while running adds one to errors whatever was typed and deleted         *)
(* before, so a wrong character typed again at a position where one was    *)
(* deleted is counted a second time.                                       *)

C19_CountersNeverDecrease ==
    [][/\ op' \notin {"reset", "configure"} =>
              /\ state'.correctChars >= state.correctChars
              /\ state'.totalChars >= state.totalChars
              /\ state'.errors >= state.errors
       /\ (op' = "input" /\ Running) =>
              LET v == state'.typedText
              IN  (/\ Len(v) = Len(Typed) + 1
                   /\ CharAt(v, Len(v) - 1) # CharAt(Text, Position)
                   /\ Delivered(v)) =>
                      state'.errors = state.errors + 1]_vars

\* a wrong character was typed and deleted: the error stays counted
C19_Witness ==
    /\ op = "input"
    /\ Running
    /\ emitted = <<"stats">>
    /\ Typed = <<>>
    /\ state.errors = 1
    /\ state.totalChars = 1

----------------------------------------------------------------------------
(* C20: while running, an input event whose buffer is longer than          *)
(* typedText by more than one character counts as one keystroke:           *)
(* totalChars grows by one; the last character of the buffer alone is      *)
(* compared, with the character of the text at the old currentPosition,    *)
(* and adds one to correctChars or to errors accordingly; typedText        *)
(* becomes the buffer and currentPosition its length.                      *)

C20_PasteIsOneKeystroke ==
    [][(op' = "input" /\ Running) =>
          \A n \in (Len(Typed) + 2)..(MaxLen + 1) :
              \A v \in InputsOfLen(n) :
                  Delivered(v) =>
                      /\ state'.totalChars = state.totalChars + 1
                      /\ state'.typedText = v
                      /\ state'.currentPosition = Len(v)
                      /\ IF v[Len(v)] = CharAt(Text, Position)
                         THEN /\ state'.correctChars = state.correctChars + 1
                              /\ state'.errors = state.errors
                              /\ emitted'[1] = "correctKey"
                         ELSE /\ state'.correctChars = state.correctChars
                              /\ state'.errors = state.errors + 1
                              /\ emitted'[1] = "incorrectKey"]_vars

\* the text is ab and ba was pasted: one correct keystroke, two characters
C20_Witness ==
    /\ op = "input"
    /\ Text = <<"a", "b">>
    /\ Typed = <<"b", "a">>
    /\ Position = 2
    /\ state.totalChars = 1
    /\ state.correctChars = 1
    /\ state.errors = 0

----------------------------------------------------------------------------
(* C21: the accuracy of a snapshot is 100 when totalChars is 0 and         *)
(* otherwise correctChars / totalChars * 100, kept within 0 and 100; it    *)
(* is always within 0 and 100.                                             *)

C21_Accuracy ==
    op = "getStats" =>
        /\ RatLE(<<0, 1>>, Snapshot.accuracy)
        /\ RatLE(Snapshot.accuracy, <<100, 1>>)
        /\ state.totalChars = 0 => RatEq(Snapshot.accuracy, <<100, 1>>)
        /\ state.totalChars > 0 =>
               LET raw == <<state.correctChars * 100, state.totalChars>>
               IN  \/ RatEq(Snapshot.accuracy, raw)
                   \/ RatLE(raw, <<0, 1>>) /\ RatEq(Snapshot.accuracy, <<0, 1>>)
                   \/ RatLE(<<100, 1>>, raw) /\ RatEq(Snapshot.accuracy, <<100, 1>>)

\* two of five keystrokes were right: 40
C21_Witness ==
    /\ op = "getStats"
    /\ state.totalChars = 5
    /\ state.correctChars = 2
    /\ RatEq(Snapshot.accuracy, <<40, 1>>)

----------------------------------------------------------------------------
(* C22, as stated: the wpm of a snapshot is                                *)
(* max(0, (correctChars / 5) / minutes) with                               *)
(* minutes = max(elapsed seconds / 60, 1/3600), the elapsed time being 0   *)
(* for a session never started.                                            *)

C22_WpmFloorOfTheSpec ==
    op = "getStats" =>
        LET t == Snapshot.timeElapsed
            m == RatMax(<<t[1], t[2] * 60>>, <<1, 3600>>)
        IN  RatEq(Snapshot.wpm, RatMax(<<0, 1>>, RatDiv(<<state.correctChars, 5>>, m)))

(* C22, amended: the wpm of a snapshot is                                  *)
(* max(0, (correctChars / 5) / minutes) with                               *)
(* minutes = max(elapsed seconds / 60, 1/60): the floor is one second,     *)
(* 1/60 of a minute.  The elapsed time is (now - startTime) / 1000 and 0   *)
(* for a session never started; from one second on wpm is                  *)
(* correctChars * 12000 / elapsed milliseconds, before that                *)
(* correctChars * 12.                                                      *)

C22_WpmFloorOneSecond ==
    op = "getStats" =>
        LET t == Snapshot.timeElapsed
            m == RatMax(<<t[1], t[2] * 60>>, <<1, 60>>)
        IN  /\ RatEq(Snapshot.wpm, RatMax(<<0, 1>>, RatDiv(<<state.correctChars, 5>>, m)))
            /\ state.startTime = NULL => RatEq(t, <<0, 1>>)
            /\ RatLE(<<1, 1>>, t) =>
                   RatEq(Snapshot.wpm, <<state.correctChars * 12000, t[1]>>)
            /\ RatLE(t, <<1, 1>>) =>
                   RatEq(Snapshot.wpm, <<state.correctChars * 12, 1>>)

\* five correct characters half a second after the start: 60, not 120
C22_Witness ==
    /\ op = "getStats"
    /\ state.correctChars = 5
    /\ RatEq(Snapshot.timeElapsed, <<1, 2>>)
    /\ RatEq(Snapshot.wpm, <<60, 1>>)

----------------------------------------------------------------------------
(* C23: currentText changes only by configure() and reset(): start(),      *)
(* pause(), resume(), stop(), the firings of the interval (completing the  *)
(* test or not) and every input event leave it as it is.                   *)

C23_TextOnlyByConfigureOrReset ==
    [][op' \notin {"reset", "configure"} => state'.currentText = state.currentText]_vars

\* the countdown ran out on a session in which a wrong character was typed
C23_Witness ==
    /\ op = "timer"
    /\ Phase = "completed"
    /\ Text = <<"a", "b">>
    /\ Typed = <<"b">>

----------------------------------------------------------------------------
(* C24: for every mode, every duration > 0 and every difficulty and        *)
(* language that is a registered key or names nothing, whatever the        *)
(* random draws, generateTestText() assigns a text (it does not throw,     *)
(* the text is not undefined) and the text is not empty.  No pool of       *)
(* contentData is empty.                                                   *)

C24_TextNotEmpty ==
    (PlainKeys /\ config.time > 0) =>
        /\ gen.pc \notin {"thrown", "undefined"}
        /\ Generated => Len(state.currentText) > 0

\* words mode: a sentence and two words
C24_Witness ==
    /\ Generated
    /\ PlainKeys
    /\ config.mode = "words"
    /\ Len(gen.textParts) = 3
    /\ Len(gen.sentences) = 1
    /\ Len(state.currentText) > 0

----------------------------------------------------------------------------
(* C25: generateTestText() never fails on a key that is not registered     *)
(* (it does not throw and the text is not undefined); in code mode the     *)
(* text is exactly one snippet, of the set of config.language if that is   *)
(* registered and of the javascript set if not; in words mode with a       *)
(* difficulty that is not registered every part of the text is a sentence  *)
(* or a word of the normal pools.                                          *)

C25_UnknownKeysFallBack ==
    /\ gen.pc \notin {"thrown", "undefined"}
    /\ (Generated /\ config.mode = "code") =>
           state.currentText \in
               Elements(IF config.language \in DOMAIN contentData.code_snippets
                        THEN contentData.code_snippets[config.language]
                        ELSE contentData.code_snippets.javascript)
    /\ (config.mode # "code"
           /\ config.difficulty \notin DOMAIN contentData.difficulties) =>
           \A i \in 1..Len(gen.textParts) :
               gen.textParts[i] \in Elements(contentData.difficulties.normal.sentences)
                                     \cup Elements(contentData.difficulties.normal.words)

----------------------------------------------------------------------------
(* C26: in words mode                                                      *)
(*  - a sentence is drawn only while the accumulated length (each part's   *)
(*    length plus one) is below 60% of the target length 40 * minutes * 5  *)
(*    and the sentence pool is not empty; it is taken out of the pool, so  *)
(*    no sentence appears twice;                                           *)
(*  - a word is drawn only while the accumulated length is below the       *)
(*    target length, and only after the sentences;                         *)
(*  - the text is the parts in the order drawn, sentences first, with one  *)
(*    space between neighbours.                                            *)

C26_WordsModeStructure ==
    [][/\ (Drawn /\ NewPart \in SentencePool) =>
              /\ gen.currentLength * TimeUnit * 10 < 40 * config.time * 5 * 6
              /\ gen.sentences # <<>>
              /\ \A i \in 1..Len(gen.textParts) :
                     /\ gen.textParts[i] # NewPart
                     /\ gen.textParts[i] \in SentencePool
              /\ NewPart \notin Elements(gen'.sentences)
       /\ (Drawn /\ NewPart \notin SentencePool) =>
              /\ NewPart \in WordPool
              /\ gen.currentLength * TimeUnit < 40 * config.time * 5
       /\ Drawn =>
              /\ SubSeq(gen'.textParts, 1, Len(gen.textParts)) = gen.textParts
              /\ gen'.currentLength = Accumulated(gen'.textParts)
       /\ (Generated' /\ config.mode # "code") =>
              LET parts == gen'.textParts
                  text == state'.currentText
                  Off(i) == Accumulated(SubSeq(parts, 1, i - 1))
              IN  /\ Len(text) = Accumulated(parts) - 1
                  /\ \A i \in 1..Len(parts) :
                         /\ SubSeq(text, Off(i) + 1, Off(i) + Len(parts[i])) = parts[i]
                         /\ i < Len(parts) => text[Off(i + 1)] = " "]_vars

\* a sentence and two words: "Pmp k ty"
C26_Witness ==
    /\ Generated
    /\ config.mode = "words"
    /\ gen.textParts = << <<"P", "m", "p">>, <<"k">>, <<"t", "y">> >>
    /\ state.currentText = <<"P", "m", "p", " ", "k", " ", "t", "y">>

----------------------------------------------------------------------------
(* C27: once createEntities() has run, be it once or twice, and after      *)
(* every tick of the simulation, the pools hold 4 Pac-Men, 4 ghosts and 50 *)
(* dots, however many dots the tick before has removed as eaten.           *)

C27_PopulationsConstant ==
    Populated => (Pacmen = 4 /\ Ghosts = 4 /\ Dots = 50)

\* a tick has replaced the dots eaten in the tick before, after both calls
\* of init() have created the entities
C27_Witness ==
    /\ Initialized
    /\ op = "frame"
    /\ anim.removed = MaxEaten
    /\ Dots = 50

----------------------------------------------------------------------------
(* C28: once every timer of a keystroke boost and of a celebration has     *)
(* fired, each Pac-Man has the speed it was created with and a velocity of *)
(* the magnitude it was created with, whatever frames and edge bounces     *)
(* came in between.                                                        *)

\* as stated: the magnitudes are restored exactly
C28_RevertsExactly ==
    Settled =>
        \A i \in 1..Pacmen :
            /\ anim.pacmanCharacters[i].speed = anim.created[i].speed
            /\ SameSize(anim.pacmanCharacters[i].vx, anim.created[i].vx)
            /\ SameSize(anim.pacmanCharacters[i].vy, anim.created[i].vy)

\* as the code has it: the speed, which is doubled and halved, is restored
\* exactly; the velocity is restored up to the rounding of the products
\* and quotients by 1.2, one rounding error for each keystroke boost
C28_RevertsUpToRounding ==
    Settled =>
        \A i \in 1..Pacmen :
            /\ anim.pacmanCharacters[i].speed = anim.created[i].speed
            /\ Within(anim.pacmanCharacters[i].vx, anim.created[i].vx,
                      anim.keystrokes)
            /\ Within(anim.pacmanCharacters[i].vy, anim.created[i].vy,
                      anim.keystrokes)

\* two keystroke boosts and a celebration have all been undone, a Pac-Man
\* has turned at an edge, and a velocity is off by a rounding error
C28_Witness ==
    /\ Settled
    /\ anim.keystrokes = 2
    /\ anim.completions = 1
    /\ anim.pacmanCharacters[2].vy = Minus(anim.created[2].vy)
    /\ \E i \in 1..Pacmen :
           ~SameSize(anim.pacmanCharacters[i].vx, anim.created[i].vx)

----------------------------------------------------------------------------
(* C30: keystroke boosts compound.  While no timer of a boost has fired,   *)
(* after n calls of addPacmanMovement() the velocity of every Pac-Man is   *)
(* its velocity at creation multiplied n times by 1.2, and twice that      *)
(* while a celebration lasts; addPacmanMovement() multiplies whether or    *)
(* not a boost is active.                                                  *)

C30_BoostsCompound ==
    (Initialized /\ anim.reverted = 0) =>
        \A i \in 1..Pacmen :
            /\ SameSize(anim.pacmanCharacters[i].vx,
                        Doubled(Boosted(anim.created[i].vx, anim.keystrokes),
                                anim.completions))
            /\ SameSize(anim.pacmanCharacters[i].vy,
                        Doubled(Boosted(anim.created[i].vy, anim.keystrokes),
                                anim.completions))

\* two boosts and a celebration are active: a velocity of one half at
\* creation is 2 * 1.2 * 1.2 * 0.5
C30_Witness ==
    /\ Initialized
    /\ anim.keystrokes = 2
    /\ anim.completions = 1
    /\ anim.reverted = 0
    /\ anim.created[4].vx = Half
    /\ anim.pacmanCharacters[4].vx = Times(two, Times(Times(Half, boost), boost))

----------------------------------------------------------------------------
(* C29: an Escape keydown while the game screen is shown pauses the game   *)
(* (the session is paused, the pause screen is shown) and one while the    *)
(* pause screen is shown resumes it (the session runs, the game screen is  *)
(* shown), whatever element the event comes from, the typing input         *)
(* included.                                                               *)

C29_EscapeToggles ==
    [][EscapePressed =>
          /\ app.currentScreen = "game" =>
                 (Phase' = "paused" /\ app'.currentScreen = "pause")
          /\ app.currentScreen = "pause" =>
                 (Phase' = "running" /\ app'.currentScreen = "game")]_vars

----------------------------------------------------------------------------
(* C31: an insertion taken by the running session invokes exactly one of   *)
(* onCorrectKey and onIncorrectKey: onCorrectKey if and only if            *)
(* correctChars was incremented, onIncorrectKey if and only if errors was. *)
(* A deletion and a rejected event invoke neither.  On the keystroke that  *)
(* completes the test onCorrectKey comes before onComplete, and no         *)
(* onStatsUpdate comes after onComplete.                                   *)

C31_OneKeyEvent ==
    [][(op' = "input") =>
          /\ Insertion =>
                 /\ CountOf("correctKey", emitted')
                        + CountOf("incorrectKey", emitted') = 1
                 /\ CountOf("correctKey", emitted') = 1
                        <=> state'.correctChars = state.correctChars + 1
                 /\ CountOf("incorrectKey", emitted') = 1
                        <=> state'.errors = state.errors + 1
          /\ ~Insertion =>
                 /\ CountOf("correctKey", emitted') = 0
                 /\ CountOf("incorrectKey", emitted') = 0
          /\ inputRejected(Self) => emitted' = <<>>
          /\ CountOf("complete", emitted') > 0 =>
                 emitted' = <<"correctKey", "complete">>]_vars

\* the keystroke that completes the test
C31_Witness ==
    /\ op = "input"
    /\ Phase = "completed"
    /\ emitted = <<"correctKey", "complete">>

----------------------------------------------------------------------------
(* C32: however pause() and resume() are interleaved, a session that the   *)
(* timer completes has spent less than the configured duration plus one    *)
(* second in the running phase since start().                              *)

C32_PausingCannotExtend ==
    (op = "timer" /\ Phase = "completed") =>
        clock.ran < (Seconds + 1) * Resolution

\* the particle pool, and the particle singled out in it
Pool == particles.pool
Followed == particles.tracked # <<>>
LoopRunning == anim.isRunning

RECURSIVE Total(_)
Total(pool) ==
    IF pool = {} THEN 0
    ELSE LET p == CHOOSE q \in pool : TRUE IN p.n + Total(pool \ {p})

\* C33: no particle whose remaining life is zero or less is in the pool
\* after a frame (nor in any other state), and while the loop runs a
\* particle that is in the pool is eventually removed from it.
C33_ParticlesRemoved ==
    /\ [](\A p \in Pool : p.life > 0)
    /\ [](Followed => \E p \in Pool : p.life = particles.tracked[1])
    /\ (Followed /\ LoopRunning) ~> (~Followed \/ ~LoopRunning)

\* the celebration particles have been created, and a frame has left the
\* pool empty
C33_Witness ==
    /\ op = "frame"
    /\ anim.completions > 0
    /\ LoopRunning
    /\ Pool = {}

\* C34: the pool never holds more than config.maxParticles particles.
C34_PoolWithinMaxParticles == Total(Pool) <= maxParticles

\* the frame callbacks that requestAnimationFrame holds
PendingFrames == anim.pending

\* C35: whatever the order of start(), stop() and frame callbacks, at most
\* one frame callback is pending; start() on a running loop changes
\* nothing; a frame callback runs only on a running loop and leaves the
\* next one requested, so that the loop has a pending callback exactly
\* while isRunning; stop() leaves none, so nothing is simulated until the
\* next start().
C35_OneLoop ==
    [][/\ Cardinality(PendingFrames') <= 1
       /\ anim'.isRunning <=> PendingFrames' # {}
       /\ (op' = "start" /\ anim.isRunning) => anim' = anim
       /\ op' = "stop" => (~anim'.isRunning /\ PendingFrames' = {})
       /\ op' = "frame" =>
              (anim.isRunning /\ anim'.isRunning /\ PendingFrames' # {})]_vars

\* start() has been called after frames were simulated, and one callback
\* is pending
C35_Witness ==
    /\ op = "start"
    /\ anim.isRunning
    /\ anim.dots.eaten > 0
    /\ Cardinality(PendingFrames) = 1

\* the loops of generateTestText() are running; it has returned
InSentenceLoop == gen.pc = "sentences"
InWordLoop == gen.pc = "words"
Returned_Text == gen.pc = "done"

\* C36: generateTestText() terminates.  A turn of the sentence loop takes
\* one sentence out of the copy of the pool, so that the turns taken and
\* the sentences left add up to the size of the pool; a turn of the word
\* loop leaves the pool as it was and adds at least one to the
\* accumulated length; and once the pools are copied the text is
\* eventually assigned.
C36_Terminates ==
    /\ [][(InSentenceLoop /\ InSentenceLoop' /\ gen' # gen) =>
              /\ Drawn
              /\ Len(gen'.sentences) = Len(gen.sentences) - 1]_vars
    /\ [](InSentenceLoop =>
              Len(gen.textParts) + Len(gen.sentences)
                  = Len(Difficulty(config.difficulty).sentences))
    /\ [][(InWordLoop /\ InWordLoop' /\ gen' # gen) =>
              /\ Drawn
              /\ gen'.words = gen.words
              /\ gen'.currentLength >= gen.currentLength + 1]_vars
    /\ (InSentenceLoop \/ InWordLoop) ~> Returned_Text

\* the text is assigned after the sentence loop has ended for want of
\* sentences, one turn taken for each sentence of the pool
C36_Witness ==
    /\ Returned_Text
    /\ config.mode = "words"
    /\ gen.sentences = <<>>
    /\ Len(gen.textParts) = Len(Difficulty(config.difficulty).sentences)

\* the screen the application shows
Screen == app.currentScreen

\* C37: after every event handler of the application the session is
\* running exactly on the game screen and paused exactly on the pause
\* screen, and on the home and results screens it is not running and its
\* timer is disarmed.
C37_ScreenMatchesPhase ==
    /\ Phase = "running" <=> Screen = "game"
    /\ Phase = "paused" <=> Screen = "pause"
    /\ Screen \in {"home", "results"} =>
           (Phase # "running" /\ timer = NULL)

\* Escape, pressed on the pause screen, has resumed the session
C37_Witness ==
    /\ op = "keydown"
    /\ app.key = "Escape"
    /\ app.target = "body"
    /\ Screen = "game"
    /\ Phase = "running"
    /\ timer # NULL

\* the three counters of the session
Counters == <<state.correctChars, state.errors, state.totalChars>>

\* C38: correctChars + errors = totalChars in every state.  An input
\* event handled as an insertion adds one to totalChars and to exactly one
\* of the other two, and no other step changes a counter, except
\* configure() and reset(), which set the three to zero.
C38_CountersAddUp ==
    /\ [](state.correctChars + state.errors = state.totalChars)
    /\ [][
          /\ Insertion =>
                 /\ state'.totalChars = state.totalChars + 1
                 /\ \/ /\ state'.correctChars = state.correctChars + 1
                        /\ state'.errors = state.errors
                    \/ /\ state'.correctChars = state.correctChars
                        /\ state'.errors = state.errors + 1
          /\ (Counters' # Counters /\ ~Insertion) =>
                 /\ op' \in {"configure", "reset"}
                 /\ Counters' = <<0, 0, 0>>
       ]_vars

\* a correct and a wrong character have been typed
C38_Witness ==
    /\ op = "input"
    /\ state.correctChars = 1
    /\ state.errors = 1
    /\ state.totalChars = 2

\* C39: state.timeRemaining stays between zero and the configured
\* duration in seconds, whatever the order of the operations and the
\* firings of the interval.
C39_CountdownInRange ==
    /\ 0 <= state.timeRemaining
    /\ state.timeRemaining <= Seconds
====
